---- MODULE Spec2Model ----
(***************************************************************************)
(* Model of src/pages/api/btcpay/webhook.ts: handleBtcpayWebhook, the      *)
(* BTCPay webhook handler that turns settlement events into Donation rows  *)
(* and PointHistory rows.                                                  *)
(*                                                                         *)
(* One invocation of the handler is a process (an element of Invs).  Its   *)
(* steps are the stretches of code between two awaits, which Node runs     *)
(* without interleaving; the steps of different invocations, and of the    *)
(* legs that Promise.all runs for one InvoiceSettled event, interleave.    *)
(*                                                                         *)
(* Units: a crypto amount is a number of quarters of a coin (4 = 1.00), a  *)
(* rate and a fiat amount are a number of cents.  Every amount of the      *)
(* model is 0 or a power of two quarters, so that amount * rate is exact   *)
(* in IEEE-754 doubles apart from the error of the rate's own literal.     *)
(***************************************************************************)
EXTENDS Integers, Sequences, FiniteSets, TLC

\* Bounds of the model.
MaxInv == 2          \* handler invocations (deliveries)
MaxLegs == 2         \* payment methods of an invoice

Invs == 1..MaxInv

\* JavaScript's undefined, for an absent metadata key or body field.
Undefined == "undefined"

-----------------------------------------------------------------------------
(* IEEE-754 double arithmetic on two-decimal values, in integers.           *)

RECURSIVE Pow2Mod100(_)
\* 2^k mod 100.
Pow2Mod100(k) == IF k = 0 THEN 1 ELSE (2 * Pow2Mod100(k - 1)) % 100

RECURSIVE Pow2(_)
Pow2(k) == IF k = 0 THEN 1 ELSE 2 * Pow2(k - 1)

RECURSIVE Log2Floor(_)
\* floor(log2 n), n >= 1.
Log2Floor(n) == IF n < 2 THEN 0 ELSE 1 + Log2Floor(n \div 2)

\* The double nearest to c/100 is m / 2^k with m in [2^52, 2^53).
\* MantissaRem(c) is (c * 2^k) mod 100: what rounding to m discards (below
\* 50) or adds (above 50; never 50, 2^k being a multiple of 4).
MantissaRem(c) ==
    LET j == Log2Floor(c)
        d == IF c * 64 >= 100 * Pow2(j) THEN 6 ELSE 7
        k == 52 - (j - d)
    IN  (c * Pow2Mod100(k)) % 100

\* The sign of (double nearest to c/100) - c/100.
LiteralErrorSign(c) ==
    IF c = 0 \/ MantissaRem(c) = 0 THEN 0
    ELSE IF MantissaRem(c) < 50 THEN -1 ELSE 1

\* Number((amount * rate).toFixed(2)), in cents: amount is amt quarters,
\* rate is the double nearest to rate/100.  toFixed rounds the exact value
\* of the double, half up.
toFixed2Mul(amt, rate) ==
    LET n == amt * rate
        q == n \div 4
        r == n % 4
    IN  IF 2 * r < 4 THEN q
        ELSE IF 2 * r > 4 THEN q + 1
        ELSE IF LiteralErrorSign(rate) >= 0 THEN q + 1 ELSE q

\* parseInt(String(f * 100)) for f the double nearest to cents/100: the
\* product is cents, or the double just below it, which truncates to
\* cents - 1.
Times100Below(cents) ==
    /\ cents > 0
    /\ LET j == Log2Floor(cents)
           d == IF cents * 64 >= 100 * Pow2(j) THEN 6 ELSE 7
       IN  /\ (d = 6 \/ cents = Pow2(j))
           /\ MantissaRem(cents) > 32
           /\ MantissaRem(cents) < 50

parseIntTimes100(cents) == IF Times100Below(cents) THEN cents - 1 ELSE cents

-----------------------------------------------------------------------------
(* The request: method, btcpay-sig header, raw body.                       *)

\* The header value as a string: a sequence of characters, of which Eq is
\* '=' and every other one stands for a run of characters without '='.
Eq == [ch |-> "="]
Txt(s) == [ch |-> s]

\* crypto.createHmac('sha256', secret).update(rawBody).digest('hex'): a hex
\* string, one run without '=', different for different bodies.
Hmac(rawBody) == <<[hex |-> rawBody]>>

\* A digest that is the HMAC of no body of the model.
OtherDigest == <<[hex |-> [json |-> FALSE, bytes |-> "other"]]>>

RECURSIVE Split(_)
\* String.prototype.split('='): the runs between the '=' characters.
Split(s) ==
    IF \A n \in 1..Len(s) : s[n] # Eq THEN <<s>>
    ELSE LET n == CHOOSE m \in 1..Len(s) :
                     s[m] = Eq /\ \A l \in 1..(m - 1) : s[l] # Eq
         IN  <<SubSeq(s, 1, n - 1)>> \o Split(SubSeq(s, n + 1, Len(s)))

\* header.split('=')[1]: the second run, or undefined.
incomingSigHash(header) ==
    LET parts == Split(header.chars)
    IN  IF Len(parts) >= 2 THEN [def |-> TRUE, val |-> parts[2]]
        ELSE [def |-> FALSE]

\* expectedSigHash === incomingSigHash (line 54, negated).
SigMatches(rawBody, header) ==
    /\ incomingSigHash(header).def
    /\ incomingSigHash(header).val = Hmac(rawBody)

-----------------------------------------------------------------------------
(* The invoices of the payment processor: what the events are about.       *)

StaticFlags == {"true", "false", Undefined, "yes"}

MetadataSet ==
    [staticGeneratedForApi : StaticFlags,
     givePointsBack : {"true", "false"},
     userId : {Undefined, "u1"},
     fundSlug : {"f1"},
     projectSlug : {"p1"},
     isMembership : {"false"}]

\* amount (quarters of a coin) and rate (cents) of a payment method:
\* nothing paid; 1.00 at 10.00; 0.25 at 0.01, which is 0.0025 and rounds
\* to 0.00.
LegValues ==
    {[amount |-> 0, rate |-> 1000],
     [amount |-> 4, rate |-> 1000],
     [amount |-> 1, rate |-> 1]}

CryptoCodeOf(l) == IF l = 1 THEN "BTC" ELSE IF l = 2 THEN "XMR" ELSE "LTC"

\* GET /invoices/{id}/payment-methods: one entry per payment method.
PaymentMethodLists(values) ==
    UNION {{[l \in 1..n |-> [cryptoCode |-> CryptoCodeOf(l),
                             amount |-> f[l].amount,
                             rate |-> f[l].rate]] : f \in [1..n -> values]}
           : n \in 0..MaxLegs}

InvoiceIds == {"inv1"}

\* The bodies BTCPay sends about invoice id: one per event type; the
\* partial-settlement event names the payment method and the payment.
EventBodies(id, metadata) ==
    {[json |-> TRUE, type |-> "InvoicePaymentSettled", invoiceId |-> id,
      metadata |-> metadata, paymentMethod |-> pm, payment |-> [value |-> 4]]
        : pm \in {"BTC-OnChain", "XMR-CashCow"}}
    \cup
    {[json |-> TRUE, type |-> t, invoiceId |-> id, metadata |-> metadata,
      paymentMethod |-> Undefined, payment |-> Undefined]
        : t \in {"InvoiceSettled", "InvoiceExpired"}}

\* A body that JSON.parse rejects.
NotJson == [json |-> FALSE]

StringHeaders(rawBody) ==
    {[kind |-> "string", chars |-> s] :
        s \in {<<Txt("sha256")>>,
               <<Txt("sha256"), Eq>>,
               <<Txt("sha256"), Eq>> \o OtherDigest,
               <<Txt("sha256"), Eq>> \o Hmac(rawBody),
               <<Txt("sha256"), Eq>> \o Hmac(rawBody) \o <<Eq, Txt("x")>>}}

\* req.headers['btcpay-sig'] when it is no string: undefined (no header) or
\* an array of strings.
NonStringHeaders == {[kind |-> "undefined"], [kind |-> "object"]}

\* The deliveries of the processor, signed with the shared secret.
SignedRequests(bodies) ==
    {[method |-> "POST",
      sig |-> [kind |-> "string", chars |-> <<Txt("sha256"), Eq>> \o Hmac(b)],
      rawBody |-> b] : b \in bodies}

\* Every request of the model: any method, any header, any body.
AllRequests(bodies) ==
    UNION {{[method |-> m, sig |-> h, rawBody |-> b] :
                m \in {"POST", "GET"},
                h \in NonStringHeaders \cup StringHeaders(b)}
           : b \in bodies \cup {NotJson}}

-----------------------------------------------------------------------------
VARIABLES
    invoices,      \* processor: invoice id -> [metadata, paymentMethods]
    donations,     \* prisma.donation rows
    pointHistory,  \* prisma.pointHistory rows, in creation order
    pc,            \* invocation -> the await the handler is at
    req,           \* invocation -> its request
    res,           \* invocation -> the response sent, or NoRes
    locals,        \* invocation -> cryptoRate of the partial-settlement path
    legs,          \* invocation -> the Promise.all callbacks, one per method
    fetched,       \* invocation -> the upstream queries it has made
    fault,         \* invocation -> the awaited calls of it that failed
    before         \* invocation -> the points ledger when its legs started

vars == <<invoices, donations, pointHistory, pc, req, res, locals, legs,
          fetched, fault, before>>

NoReq == [method |-> "none"]
NoRes == [status |-> 0]
\* res.status(s).json({ success: b })
Json(s, b) == [status |-> s, success |-> b]
\* res.status(405).end(...)
NotAllowed == [status |-> 405]
\* An exception leaves the handler: Next.js answers 500.
Uncaught == [status |-> 500]

InitWith(ids, metas, values) ==
    /\ invoices \in [ids -> [metadata : metas,
                             paymentMethods : PaymentMethodLists(values)]]
    /\ donations = {}
    /\ pointHistory = <<>>
    /\ pc = [i \in Invs |-> "idle"]
    /\ req = [i \in Invs |-> NoReq]
    /\ res = [i \in Invs |-> NoRes]
    /\ locals = [i \in Invs |-> [cryptoRate |-> 0]]
    /\ legs = [i \in Invs |-> <<>>]
    /\ fetched = [i \in Invs |-> {}]
    /\ fault = [i \in Invs |-> {}]
    /\ before = [i \in Invs |-> [len |-> 0, balance |-> 0]]

Init == InitWith(InvoiceIds, MetadataSet, LegValues)

-----------------------------------------------------------------------------
(* The handler, lines 32-169.                                              *)

\* What any client may send, given the invoices there are.
Bodies == UNION {EventBodies(id, invoices[id].metadata) : id \in DOMAIN invoices}

Done(i, r) ==
    /\ pc' = [pc EXCEPT ![i] = "done"]
    /\ res' = [res EXCEPT ![i] = r]

Goto(i, label) ==
    /\ pc' = [pc EXCEPT ![i] = label]
    /\ UNCHANGED res

\* Lines 33-44: the method and the type of the signature header, then the
\* handler awaits the raw body.  Invocations are numbered in the order in
\* which their requests arrive.
Receive(i, requests) ==
    /\ pc[i] = "idle"
    /\ \A k \in 1..(i - 1) : pc[k] # "idle"
    /\ \E r \in requests :
        /\ req' = [req EXCEPT ![i] = r]
        /\ IF r.method # "POST" THEN Done(i, NotAllowed)
           ELSE IF r.sig.kind # "string" THEN Done(i, Json(400, FALSE))
           ELSE Goto(i, "getRawBody")
    /\ UNCHANGED <<invoices, donations, pointHistory, locals, legs, fetched,
                   fault, before>>

SkipsPartialAs(body) == body.metadata.staticGeneratedForApi = "true"
SkipsFullAs(body) == body.metadata.staticGeneratedForApi = "false"

\* Lines 62 and 94: the event is left to the other path.
SkipsPartial(body) == body.metadata.staticGeneratedForApi = "false"
SkipsFull(body) == body.metadata.staticGeneratedForApi = "true"

VerifyAs(i) ==
    /\ pc[i] = "getRawBody"
    /\ LET body == req[i].rawBody
       IN  IF ~body.json THEN
               Done(i, Uncaught) /\ UNCHANGED fetched
           ELSE IF ~SigMatches(body, req[i].sig) THEN
               Done(i, Json(400, FALSE)) /\ UNCHANGED fetched
           ELSE IF body.type = "InvoicePaymentSettled" THEN
               IF SkipsPartial(body) THEN
                   Done(i, Json(200, TRUE)) /\ UNCHANGED fetched
               ELSE
                   /\ Goto(i, "rates")
                   /\ fetched' = [fetched EXCEPT ![i] = @ \cup {"rates"}]
           ELSE IF body.type # "InvoicePaymentSettled" THEN
               IF SkipsFull(body) THEN
                   Done(i, Json(200, TRUE)) /\ UNCHANGED fetched
               ELSE
                   /\ Goto(i, "payment-methods")
                   /\ fetched' = [fetched EXCEPT ![i] = @ \cup {"payment-methods"}]
           ELSE
               Done(i, Json(200, TRUE)) /\ UNCHANGED fetched
    /\ UNCHANGED <<invoices, donations, pointHistory, req, locals, legs,
                   fault, before>>

\* Lines 44-68 and 92-98: JSON.parse, the signature, the event type and the
\* metadata flag, up to the upstream query the handler awaits next.
Verify(i) ==
    /\ pc[i] = "getRawBody"
    /\ LET body == req[i].rawBody
       IN  IF ~body.json THEN
               Done(i, Uncaught) /\ UNCHANGED fetched
           ELSE IF ~SigMatches(body, req[i].sig) THEN
               Done(i, Json(400, FALSE)) /\ UNCHANGED fetched
           ELSE IF body.type = "InvoicePaymentSettled" THEN
               IF SkipsPartial(body) THEN
                   Done(i, Json(200, TRUE)) /\ UNCHANGED fetched
               ELSE
                   /\ Goto(i, "rates")
                   /\ fetched' = [fetched EXCEPT ![i] = @ \cup {"rates"}]
           ELSE IF body.type = "InvoiceSettled" THEN
               IF SkipsFull(body) THEN
                   Done(i, Json(200, TRUE)) /\ UNCHANGED fetched
               ELSE
                   /\ Goto(i, "payment-methods")
                   /\ fetched' = [fetched EXCEPT ![i] = @ \cup {"payment-methods"}]
           ELSE
               Done(i, Json(200, TRUE)) /\ UNCHANGED fetched
    /\ UNCHANGED <<invoices, donations, pointHistory, req, locals, legs,
                   fault, before>>

\* An awaited call rejects: the exception leaves the handler.
Throws(i) ==
    /\ Done(i, Uncaught)
    /\ fault' = [fault EXCEPT ![i] = @ \cup {pc[i]}]

\* Line 66.
cryptoCode(body) == IF body.paymentMethod = "BTC-OnChain" THEN "BTC" ELSE "XMR"

\* GET /rates?currencyPair=..._USD: a list of rates (in cents), which may be
\* empty.
RatesResponses == {<<>>, <<[rate |-> 1000]>>}

GetRatesAs(i) ==
    /\ pc[i] = "rates"
    /\ \/ \E rates \in RatesResponses :
            /\ locals' = [locals EXCEPT ![i].cryptoRate =
                             IF rates = <<>> THEN 0 ELSE rates[1].rate]
            /\ Goto(i, "donation.create")
            /\ fault' = [fault EXCEPT ![i] =
                            IF rates = <<>> THEN @ \cup {pc[i]} ELSE @]
       \/ /\ Throws(i)
          /\ UNCHANGED locals
    /\ UNCHANGED <<invoices, donations, pointHistory, req, legs, fetched, before>>

\* Lines 68-76: the rates arrive and the donation is sent to the ledger;
\* rates[0].rate of an empty list throws, as does a query that fails.
GetRates(i) ==
    /\ pc[i] = "rates"
    /\ \/ \E rates \in RatesResponses :
            IF rates = <<>> THEN
                Throws(i) /\ UNCHANGED locals
            ELSE
                /\ locals' = [locals EXCEPT ![i].cryptoRate = rates[1].rate]
                /\ Goto(i, "donation.create")
                /\ UNCHANGED fault
       \/ /\ Throws(i)
          /\ UNCHANGED locals
    /\ UNCHANGED <<invoices, donations, pointHistory, req, legs, fetched, before>>

Null == "null"

\* The default of the pointsAdded column of a donation row.
pointsAddedDefault == 0

PartialDonationAs(i, body, cryptoRate) ==
    [id |-> <<i, 0>>,
     userId |-> Null,
     btcPayInvoiceId |-> body.invoiceId,
     projectSlug |-> body.metadata.projectSlug,
     fundSlug |-> body.metadata.fundSlug,
     cryptoCode |-> cryptoCode(body),
     grossCryptoAmount |-> body.payment.value,
     grossFiatAmount |-> toFixed2Mul(body.payment.value, cryptoRate),
     netCryptoAmount |-> body.payment.value,
     netFiatAmount |-> toFixed2Mul(body.payment.value, cryptoRate),
     pointsAdded |-> IF body.metadata.givePointsBack = "true"
                     THEN parseIntTimes100(toFixed2Mul(body.payment.value, cryptoRate))
                     ELSE 0,
     membershipExpiresAt |-> Null,
     type |-> body.type, inv |-> i, leg |-> 0]

\* Lines 72-89: the row of the partial-settlement path.  The ledger gives
\* the row a fresh id and pointsAdded its default; type, inv and leg record
\* the event, the invocation and the leg that wrote the row.
PartialDonation(i, body, cryptoRate) ==
    [id |-> <<i, 0>>,
     userId |-> Null,
     btcPayInvoiceId |-> body.invoiceId,
     projectSlug |-> body.metadata.projectSlug,
     fundSlug |-> body.metadata.fundSlug,
     cryptoCode |-> cryptoCode(body),
     grossCryptoAmount |-> body.payment.value,
     grossFiatAmount |-> toFixed2Mul(body.payment.value, cryptoRate),
     netCryptoAmount |-> body.payment.value,
     netFiatAmount |-> toFixed2Mul(body.payment.value, cryptoRate),
     pointsAdded |-> pointsAddedDefault,
     membershipExpiresAt |-> Null,
     type |-> body.type, inv |-> i, leg |-> 0]

\* Lines 76-90, 92, 168: the row is written and the handler answers.
CreateDonation(i) ==
    /\ pc[i] = "donation.create"
    /\ \/ /\ donations' = donations \cup
                {PartialDonation(i, req[i].rawBody, locals[i].cryptoRate)}
          /\ Done(i, Json(200, TRUE))
          /\ UNCHANGED fault
       \/ /\ Throws(i)
          /\ UNCHANGED donations
    /\ UNCHANGED <<invoices, pointHistory, req, locals, legs, fetched, before>>

-----------------------------------------------------------------------------
(* The full-settlement path, lines 98-166.                                 *)

\* Line 105.
shouldGivePointsBack(body) == body.metadata.givePointsBack = "true"

\* Lines 106-108 and 129: Number(grossFiatAmount.toFixed(2)), in cents.
grossFiatAmount(paymentMethod) ==
    toFixed2Mul(paymentMethod.amount, paymentMethod.rate)

\* Lines 116-118.
pointsAdded(body, paymentMethod) ==
    IF shouldGivePointsBack(body)
    THEN parseIntTimes100(grossFiatAmount(paymentMethod))
    ELSE 0

\* Line 139: a points entry is due.
PointsDue(body) ==
    shouldGivePointsBack(body) /\ body.metadata.userId # Undefined

InScopeAs(entry, body) ==
    /\ entry.userId = body.metadata.userId
    /\ entry.projectSlug = body.metadata.projectSlug

\* Lines 142-146: the where clause of the lookup, without pointsAdded.
InScope(entry, body) ==
    /\ entry.userId = body.metadata.userId
    /\ entry.fundSlug = body.metadata.fundSlug
    /\ entry.projectSlug = body.metadata.projectSlug

\* Lines 141-151: the pointsBalance of the latest entry of the scope with
\* pointsAdded > 0, or 0.
currentBalance(body) ==
    LET found == {n \in 1..Len(pointHistory) :
                    InScope(pointHistory[n], body)
                    /\ pointHistory[n].pointsAdded > 0}
    IN  IF found = {} THEN 0
        ELSE pointHistory[CHOOSE n \in found : \A m \in found : m <= n].pointsBalance

PaymentMethodsOf(i) == invoices[req[i].rawBody.invoiceId].paymentMethods

Finished(leg) == leg.pc \in {"returned", "fulfilled"}

\* Lines 103-114: Promise.all starts every callback; each runs to its first
\* await, or returns at once for a method nothing was paid with.
StartLegAs(paymentMethod) ==
    [pc |-> "donation.create", donationId |-> <<>>, currentBalance |-> 0]

StartLeg(paymentMethod) ==
    [pc |-> IF paymentMethod.amount = 0 THEN "returned" ELSE "donation.create",
     donationId |-> <<>>,
     currentBalance |-> 0]

\* Lines 98-103 (and 168 when no callback has anything to await).
GetPaymentMethods(i) ==
    /\ pc[i] = "payment-methods"
    /\ \/ /\ LET started == [l \in 1..Len(PaymentMethodsOf(i)) |->
                                StartLeg(PaymentMethodsOf(i)[l])]
             IN  /\ legs' = [legs EXCEPT ![i] = started]
                 /\ IF \A l \in 1..Len(started) : Finished(started[l])
                    THEN Done(i, Json(200, TRUE))
                    ELSE Goto(i, "Promise.all")
          /\ before' = [before EXCEPT ![i] =
                          [len |-> Len(pointHistory),
                           balance |-> currentBalance(req[i].rawBody)]]
          /\ UNCHANGED fault
       \/ /\ Throws(i)
          /\ UNCHANGED <<legs, before>>
    /\ UNCHANGED <<invoices, donations, pointHistory, req, locals, fetched>>

SettleRaceAs(i, l, leg) ==
    /\ legs' = [legs EXCEPT ![i][l] = leg]
    /\ IF pc[i] # "Promise.all" THEN UNCHANGED <<pc, res>>
       ELSE IF leg.pc = "rejected" THEN Done(i, Uncaught)
       ELSE IF leg.pc \in {"returned", "fulfilled"} THEN Done(i, Json(200, TRUE))
       ELSE UNCHANGED <<pc, res>>

SettleAs(i, l, leg) ==
    /\ legs' = [legs EXCEPT ![i][l] = leg]
    /\ IF pc[i] # "Promise.all" THEN UNCHANGED <<pc, res>>
       ELSE IF \A k \in 1..Len(legs[i]) :
                 (IF k = l THEN leg ELSE legs[i][k]).pc
                     \in {"returned", "fulfilled", "rejected"}
            THEN Done(i, Json(200, TRUE))
       ELSE UNCHANGED <<pc, res>>

\* Promise.all settles in the microtasks of the step that settles a leg: it
\* rejects with the first leg that rejects (the handler throws), and is
\* fulfilled when the last leg is (line 168).  The other legs run on.
Settle(i, l, leg) ==
    /\ legs' = [legs EXCEPT ![i][l] = leg]
    /\ IF pc[i] # "Promise.all" THEN UNCHANGED <<pc, res>>
       ELSE IF leg.pc = "rejected" THEN Done(i, Uncaught)
       ELSE IF \A k \in 1..Len(legs[i]) : Finished(IF k = l THEN leg ELSE legs[i][k])
            THEN Done(i, Json(200, TRUE))
       ELSE UNCHANGED <<pc, res>>

\* A callback that has ended: its locals are gone.
Ended(label) == [pc |-> label, donationId |-> <<>>, currentBalance |-> 0]

Reject(i, l) ==
    /\ Settle(i, l, Ended("rejected"))
    /\ fault' = [fault EXCEPT ![i] = @ \cup {legs[i][l].pc}]

LegDonationAs(i, l, body, paymentMethod) ==
    [id |-> <<i, l>>,
     userId |-> body.metadata.userId,
     btcPayInvoiceId |-> body.invoiceId,
     projectSlug |-> body.metadata.projectSlug,
     fundSlug |-> body.metadata.fundSlug,
     cryptoCode |-> paymentMethod.cryptoCode,
     grossCryptoAmount |-> paymentMethod.amount,
     grossFiatAmount |-> grossFiatAmount(paymentMethod),
     pointsAdded |-> pointsAddedDefault,
     membershipExpiresAt |->
         IF body.metadata.isMembership = "true" THEN "in1year" ELSE Null,
     type |-> body.type, inv |-> i, leg |-> l]

\* Lines 120-136: the row of a leg.  Amounts of the model are multiples of
\* 0.25, which toFixed(2) leaves as they are; the net amounts (lines 110,
\* 111, 130, 131) are not modelled.
LegDonation(i, l, body, paymentMethod) ==
    [id |-> <<i, l>>,
     userId |-> body.metadata.userId,
     btcPayInvoiceId |-> body.invoiceId,
     projectSlug |-> body.metadata.projectSlug,
     fundSlug |-> body.metadata.fundSlug,
     cryptoCode |-> paymentMethod.cryptoCode,
     grossCryptoAmount |-> paymentMethod.amount,
     grossFiatAmount |-> grossFiatAmount(paymentMethod),
     pointsAdded |-> pointsAdded(body, paymentMethod),
     membershipExpiresAt |->
         IF body.metadata.isMembership = "true" THEN "in1year" ELSE Null,
     type |-> body.type, inv |-> i, leg |-> l]

\* Lines 120-141: the donation is written; the leg goes on to the points
\* lookup when an entry is due, and is fulfilled otherwise.
LegCreateDonation(i, l) ==
    /\ l \in 1..Len(legs[i])
    /\ legs[i][l].pc = "donation.create"
    /\ \/ /\ donations' = donations \cup
                {LegDonation(i, l, req[i].rawBody, PaymentMethodsOf(i)[l])}
          /\ Settle(i, l, IF PointsDue(req[i].rawBody)
                           THEN [legs[i][l] EXCEPT
                                    !.donationId = <<i, l>>,
                                    !.pc = "findFirst"]
                           ELSE Ended("fulfilled"))
          /\ UNCHANGED fault
       \/ /\ Reject(i, l)
          /\ UNCHANGED donations
    /\ UNCHANGED <<invoices, pointHistory, req, locals, fetched, before>>

\* Lines 141-153: the lookup answers.
LegFindFirst(i, l) ==
    /\ l \in 1..Len(legs[i])
    /\ legs[i][l].pc = "findFirst"
    /\ \/ /\ Settle(i, l, [legs[i][l] EXCEPT
                !.currentBalance = currentBalance(req[i].rawBody),
                !.pc = "pointHistory.create"])
          /\ UNCHANGED fault
       \/ Reject(i, l)
    /\ UNCHANGED <<invoices, donations, pointHistory, req, locals, fetched,
                   before>>

LegPointHistoryAs(i, l, body, paymentMethod) ==
    [donationId |-> legs[i][l].donationId,
     userId |-> body.metadata.userId,
     fundSlug |-> body.metadata.fundSlug,
     projectSlug |-> body.metadata.projectSlug,
     pointsAdded |-> pointsAdded(body, paymentMethod),
     pointsBalance |-> pointsAdded(body, paymentMethod),
     inv |-> i, leg |-> l]

\* Lines 153-162: the entry of a leg; inv and leg record the invocation
\* and the leg that wrote it.
LegPointHistory(i, l, body, paymentMethod) ==
    [donationId |-> legs[i][l].donationId,
     userId |-> body.metadata.userId,
     fundSlug |-> body.metadata.fundSlug,
     projectSlug |-> body.metadata.projectSlug,
     pointsAdded |-> pointsAdded(body, paymentMethod),
     pointsBalance |-> legs[i][l].currentBalance + pointsAdded(body, paymentMethod),
     inv |-> i, leg |-> l]

\* Lines 153-164: the entry is written and the leg is fulfilled.
LegCreatePointHistory(i, l) ==
    /\ l \in 1..Len(legs[i])
    /\ legs[i][l].pc = "pointHistory.create"
    /\ \/ /\ pointHistory' = Append(pointHistory,
                LegPointHistory(i, l, req[i].rawBody, PaymentMethodsOf(i)[l]))
          /\ Settle(i, l, Ended("fulfilled"))
          /\ UNCHANGED fault
       \/ /\ Reject(i, l)
          /\ UNCHANGED pointHistory
    /\ UNCHANGED <<invoices, donations, req, locals, fetched, before>>

-----------------------------------------------------------------------------
(* Specifications.                                                         *)

\* A request whose signature is the HMAC of no body.
ForgedRequests(bodies) ==
    {[method |-> "POST",
      sig |-> [kind |-> "string", chars |-> <<Txt("sha256"), Eq>> \o OtherDigest],
      rawBody |-> b] : b \in bodies}

\* What reaches the endpoint: the processor's deliveries, redeliveries
\* included, and forged requests.
Deliveries == SignedRequests(Bodies) \cup ForgedRequests(Bodies \cup {NotJson})

Step(i, requests) ==
    \/ Receive(i, requests)
    \/ Verify(i)
    \/ GetRates(i)
    \/ CreateDonation(i)
    \/ GetPaymentMethods(i)
    \/ \E l \in 1..MaxLegs :
        \/ LegCreateDonation(i, l)
        \/ LegFindFirst(i, l)
        \/ LegCreatePointHistory(i, l)

\* MaxInv deliveries about one invoice, handled concurrently.
Next == \E i \in Invs : Step(i, Deliveries)

Spec == Init /\ [][Next]_vars

\* One invocation, any request: every method, header and body.
NextAuth == Step(1, AllRequests(Bodies))

SpecAuth == Init /\ [][NextAuth]_vars

\* No invocation is running: no handler and no leg is at an await.
Quiescent ==
    \A k \in Invs :
        /\ pc[k] \in {"idle", "done"}
        /\ \A l \in 1..Len(legs[k]) : legs[k][l].pc \in {"returned", "fulfilled", "rejected"}

\* Payment methods of which at most one was paid with.
OneLegPaid(paymentMethods) ==
    Cardinality({l \in 1..Len(paymentMethods) : paymentMethods[l].amount # 0}) <= 1

\* 1.00 at 5.00, besides the values of LegValues.
SeqLegValues == LegValues \cup {[amount |-> 4, rate |-> 500]}

SeqInvoiceIds == {"inv1", "inv2"}

\* The donor is known and asks for points.
SeqMetadataSet ==
    {m \in MetadataSet : /\ m.staticGeneratedForApi \in {"false", Undefined}
                         /\ m.givePointsBack = "true"
                         /\ m.userId = "u1"}

\* Two invoices of one donor, each paid with at most one method.
InitSeq ==
    /\ InitWith(SeqInvoiceIds, SeqMetadataSet, SeqLegValues)
    /\ \A id \in SeqInvoiceIds : OneLegPaid(invoices[id].paymentMethods)

\* Deliveries handled one after another: a request arrives only when the
\* invocation before it has completed.
NextSeq ==
    \E i \in Invs :
        \/ Quiescent /\ Receive(i, SignedRequests(Bodies))
        \/ Verify(i)
        \/ GetRates(i)
        \/ CreateDonation(i)
        \/ GetPaymentMethods(i)
        \/ \E l \in 1..MaxLegs :
            \/ LegCreateDonation(i, l)
            \/ LegFindFirst(i, l)
            \/ LegCreatePointHistory(i, l)

SpecSeq == InitSeq /\ [][NextSeq]_vars

-----------------------------------------------------------------------------
(* Properties.                                                             *)

Body(i) == req[i].rawBody

\* The verifier has accepted the request of invocation i.
Verified(i) ==
    /\ req[i].method = "POST"
    /\ req[i].sig.kind = "string"
    /\ Body(i).json
    /\ SigMatches(Body(i), req[i].sig)

\* Invocation i has processed (not skipped) a full-settlement event and
\* has its payment methods.
FullSettlement(i) ==
    /\ Verified(i)
    /\ Body(i).type = "InvoiceSettled"
    /\ ~SkipsFull(Body(i))
    /\ pc[i] \in {"Promise.all", "done"}
    /\ ~(res[i] = Uncaught /\ legs[i] = <<>>)

DonationsOf(i) == {d \in donations : d.inv = i}
EntriesOf(i) == {n \in 1..Len(pointHistory) : pointHistory[n].donationId[1] = i}

PaidLegs(i) ==
    {l \in 1..Len(PaymentMethodsOf(i)) : PaymentMethodsOf(i)[l].amount # 0}

\* The legs of invocation i that award points.
AwardingLegs(i) ==
    {l \in PaidLegs(i) : pointsAdded(Body(i), PaymentMethodsOf(i)[l]) > 0}

RECURSIVE SumPoints(_, _)
\* The pointsAdded of the legs of invocation i in the set ls, summed.
SumPoints(i, ls) ==
    IF ls = {} THEN 0
    ELSE LET l == CHOOSE x \in ls : TRUE
         IN  pointsAdded(Body(i), PaymentMethodsOf(i)[l]) + SumPoints(i, ls \ {l})

\* The pointsBalance of the entry of body's scope created last before
\* position n of the ledger, 0 if there is none.
BalanceBefore(body, n) ==
    LET earlier == {m \in 1..(n - 1) : InScope(pointHistory[m], body)}
    IN  IF earlier = {} THEN 0
        ELSE pointHistory[CHOOSE m \in earlier : \A k \in earlier : k <= m].pointsBalance

\* C1: when every leg of a full-settlement event whose paid legs, two or
\* more, all award points has completed, and nothing else wrote to the scope
\* since the legs started, the latest pointsBalance of the scope is the
\* balance from before the event plus the pointsAdded of all its legs.
C1_ConcurrentLegsAddUp ==
    \A i \in Invs :
        ( /\ FullSettlement(i)
          /\ PointsDue(Body(i))
          /\ Cardinality(AwardingLegs(i)) >= 2
          /\ AwardingLegs(i) = PaidLegs(i)
          /\ \A l \in 1..Len(legs[i]) : Finished(legs[i][l])
          /\ \A n \in (before[i].len + 1)..Len(pointHistory) : n \in EntriesOf(i) )
        => BalanceBefore(Body(i), Len(pointHistory) + 1)
               = before[i].balance + SumPoints(i, PaidLegs(i))

RECURSIVE SumAdded(_, _)
\* The pointsAdded of the first n entries of the ledger that are in body's
\* scope, summed.
SumAdded(body, n) ==
    IF n = 0 THEN 0
    ELSE SumAdded(body, n - 1)
         + (IF InScope(pointHistory[n], body) THEN pointHistory[n].pointsAdded ELSE 0)

\* C2: with deliveries handled one after another and at most one paid leg
\* per event, every entry's pointsBalance is the pointsBalance of the entry
\* of its scope before it (0 if none) plus its own pointsAdded, which is the
\* sum of the pointsAdded of the scope up to that entry.
C2_SequentialBalanceChain ==
    \A n \in 1..Len(pointHistory) :
        /\ pointHistory[n].pointsBalance
             = BalanceBefore([metadata |-> pointHistory[n]], n) + pointHistory[n].pointsAdded
        /\ pointHistory[n].pointsBalance = SumAdded([metadata |-> pointHistory[n]], n)

\* C2 witness: a second award in a scope, on top of a balance that is not 0.
C2_Witness ==
    \E n \in 1..Len(pointHistory) :
        /\ pointHistory[n].pointsAdded > 0
        /\ BalanceBefore([metadata |-> pointHistory[n]], n) > 0
        /\ pointHistory[n].pointsAdded # BalanceBefore([metadata |-> pointHistory[n]], n)

\* C3: a POST whose signature header is no string, has no '=' part or does
\* not carry the HMAC of the raw body ends with 400 and success:false,
\* whatever the body, and fetches and writes nothing.
C3_BadSignatureRejected ==
    \A i \in Invs :
        ( /\ pc[i] \notin {"idle", "getRawBody"}
          /\ req[i].method = "POST"
          /\ (req[i].sig.kind # "string" \/ ~SigMatches(Body(i), req[i].sig)) )
        => /\ pc[i] = "done"
           /\ res[i] = Json(400, FALSE)
           /\ fetched[i] = {}
           /\ DonationsOf(i) = {}
           /\ EntriesOf(i) = {}

\* C4: deliveries of the same event (same body and signature) leave at most
\* one Donation per invoice and payment method, and at most one points
\* entry for it.
C4_RedeliveryBooksOnce ==
    /\ \A d1, d2 \in donations :
        ( /\ req[d1.inv] = req[d2.inv]
          /\ d1.btcPayInvoiceId = d2.btcPayInvoiceId
          /\ d1.cryptoCode = d2.cryptoCode )
        => d1.id = d2.id
    /\ \A n, m \in 1..Len(pointHistory) :
        ( /\ req[pointHistory[n].donationId[1]] = req[pointHistory[m].donationId[1]]
          /\ pointHistory[n].donationId[2] = pointHistory[m].donationId[2] )
        => n = m

\* C5: the donations of an invoice are all written by the same event path,
\* whatever metadata.staticGeneratedForApi is.
C5_OnePathPerInvoice ==
    \A d1, d2 \in donations :
        d1.btcPayInvoiceId = d2.btcPayInvoiceId => d1.type = d2.type

\* C6: once a leg for which a points entry is due has ended, its Donation
\* exists exactly if its points entry does.
C6_LegAtomic ==
    \A i \in Invs : \A l \in 1..Len(legs[i]) :
        ( /\ PointsDue(Body(i))
          /\ legs[i][l].pc \in {"fulfilled", "rejected"} )
        => ( (\E d \in donations : d.id = <<i, l>>)
             <=> (\E n \in 1..Len(pointHistory) : pointHistory[n].donationId = <<i, l>>) )

\* C7: a processed full-settlement event that ends in success has written
\* one Donation for each payment method with a nonzero amount, and no
\* Donation and no points entry for a payment method with amount 0.
C7_OneDonationPerPaidLeg ==
    \A i \in Invs :
        ( FullSettlement(i) /\ res[i] = Json(200, TRUE) )
        => /\ Cardinality(DonationsOf(i)) = Cardinality(PaidLegs(i))
           /\ \A l \in 1..Len(PaymentMethodsOf(i)) :
                /\ Cardinality({d \in donations : d.inv = i /\ d.leg = l})
                     = IF l \in PaidLegs(i) THEN 1 ELSE 0
                /\ l \notin PaidLegs(i)
                     => \A n \in 1..Len(pointHistory) : pointHistory[n].donationId # <<i, l>>

\* C7 witness: success for an invoice with a paid and an unpaid method.
C7_Witness ==
    \E i \in Invs :
        /\ FullSettlement(i) /\ res[i] = Json(200, TRUE)
        /\ PaidLegs(i) # {}
        /\ PaidLegs(i) # 1..Len(PaymentMethodsOf(i))
        /\ DonationsOf(i) # {}

\* Invocation i has got past the classifier (lines 60-64, 92-96).
Classified(i) == pc[i] \notin {"idle", "getRawBody"}

\* C8: a verified partial-settlement event of an invoice marked as not
\* API-generated ends with 200 and success:true, fetches no rate and writes
\* nothing.
C8_PartialSkipped ==
    \A i \in Invs :
        ( /\ Classified(i) /\ Verified(i)
          /\ Body(i).type = "InvoicePaymentSettled"
          /\ Body(i).metadata.staticGeneratedForApi = "false" )
        => /\ pc[i] = "done"
           /\ res[i] = Json(200, TRUE)
           /\ fetched[i] = {}
           /\ DonationsOf(i) = {}
           /\ EntriesOf(i) = {}

C8_Witness ==
    \E i \in Invs :
        /\ Classified(i) /\ Verified(i)
        /\ Body(i).type = "InvoicePaymentSettled"
        /\ Body(i).metadata.staticGeneratedForApi = "false"
        /\ res[i] = Json(200, TRUE)

\* C9: a verified full-settlement event of an invoice marked as
\* API-generated ends with 200 and success:true, fetches no payment methods
\* and writes nothing.
C9_FullSkipped ==
    \A i \in Invs :
        ( /\ Classified(i) /\ Verified(i)
          /\ Body(i).type = "InvoiceSettled"
          /\ Body(i).metadata.staticGeneratedForApi = "true" )
        => /\ pc[i] = "done"
           /\ res[i] = Json(200, TRUE)
           /\ fetched[i] = {}
           /\ DonationsOf(i) = {}
           /\ EntriesOf(i) = {}

C9_Witness ==
    \E i \in Invs :
        /\ Classified(i) /\ Verified(i)
        /\ Body(i).type = "InvoiceSettled"
        /\ Body(i).metadata.staticGeneratedForApi = "true"
        /\ res[i] = Json(200, TRUE)

\* C10: every points entry has pointsAdded > 0 and a userId, and its event
\* asked for points.
C10_EntryOnlyForAward ==
    \A n \in 1..Len(pointHistory) :
        /\ pointHistory[n].pointsAdded > 0
        /\ pointHistory[n].userId # Undefined
        /\ shouldGivePointsBack(Body(pointHistory[n].donationId[1]))

\* The upstream queries: the rates and the payment methods.
Fetches == {"rates", "payment-methods"}

\* C11: an invocation one of whose upstream queries failed (the rates query
\* also by answering an empty list) has ended, not in success, and has
\* written no donation and no points entry.
C11_FetchFailureWritesNothing ==
    \A i \in Invs :
        fault[i] \cap Fetches # {}
        => /\ pc[i] = "done"
           /\ res[i] # NoRes
           /\ res[i].status # 200
           /\ DonationsOf(i) = {}
           /\ EntriesOf(i) = {}

\* C11 witness: a rates query and a payment-methods query have failed.
C11_Witness ==
    \E i, j \in Invs :
        /\ "rates" \in fault[i] /\ res[i] = Uncaught
        /\ "payment-methods" \in fault[j] /\ res[j] = Uncaught

\* C12: an invocation of which a fetch or a ledger call failed never
\* answers 200; an invocation that answers 200 has ended with every leg
\* completed and no failure.
C12_FailureNeverSuccess ==
    \A i \in Invs :
        /\ fault[i] # {} => res[i] \in {NoRes, Uncaught}
        /\ res[i] = Json(200, TRUE)
             => /\ pc[i] = "done"
                /\ fault[i] = {}
                /\ \A l \in 1..Len(legs[i]) : Finished(legs[i][l])

\* C12 witness: a leg's points entry failed to be written after a sibling
\* leg completed, and the invocation has answered.
C12_Witness ==
    \E i \in Invs :
        /\ "pointHistory.create" \in fault[i]
        /\ \E l \in 1..Len(legs[i]) : legs[i][l].pc = "fulfilled"
        /\ res[i] = Uncaught

\* C13: a verified event that is neither InvoicePaymentSettled nor
\* InvoiceSettled is answered 200 with success:true, and fetches and writes
\* nothing.
C13_OtherEventAcknowledged ==
    \A i \in Invs :
        ( /\ Classified(i) /\ Verified(i)
          /\ Body(i).type \notin {"InvoicePaymentSettled", "InvoiceSettled"} )
        => /\ pc[i] = "done"
           /\ res[i] = Json(200, TRUE)
           /\ fetched[i] = {}
           /\ DonationsOf(i) = {}
           /\ EntriesOf(i) = {}

\* C13 witness: an InvoiceExpired event, not marked as API-generated, has
\* been answered.
C13_Witness ==
    \E i \in Invs :
        /\ Classified(i) /\ Verified(i)
        /\ Body(i).type = "InvoiceExpired"
        /\ ~SkipsFull(Body(i))
        /\ res[i] = Json(200, TRUE)

-----------------------------------------------------------------------------
(* The monetary calculation on a range of amounts and rates.               *)

\* 0.25, 1.00 and 2.00 coins at 0.01, 0.02, 0.29, 10.00 and 19.99.
CalcLegValues ==
    {[amount |-> a, rate |-> r] : a \in {1, 4, 8}, r \in {1, 2, 29, 1000, 1999}}

CalcMetadataSet ==
    {m \in MetadataSet : m.staticGeneratedForApi = Undefined /\ m.userId = "u1"}

InitCalc == InitWith(InvoiceIds, CalcMetadataSet, CalcLegValues)

\* One delivery at a time of the events of one invoice.
NextCalc == Step(1, SignedRequests(Bodies))

SpecCalc == InitCalc /\ [][NextCalc]_vars

\* C14: the pointsAdded of a full-settlement donation is its fiat amount,
\* rounded to 2 decimals, in cents when points were requested (1999 for
\* 19.99), and 0 when they were not.
C14_PointsAreCents ==
    \A d \in donations :
        d.type = "InvoiceSettled"
        => d.pointsAdded = IF shouldGivePointsBack(Body(d.inv))
                           THEN d.grossFiatAmount
                           ELSE 0

\* Every leg of invocation i has ended.
LegsEnded(i) ==
    \A l \in 1..Len(legs[i]) : legs[i][l].pc \in {"returned", "fulfilled", "rejected"}

\* C15: once a processed full-settlement invocation and all its legs have
\* ended, either it answered 200 and every paid leg's donation (and points
\* entry where due) is in the ledger, or it did not and the ledger holds no
\* donation and no points entry of any of its legs.
C15_AllOrNothing ==
    \A i \in Invs :
        ( /\ Verified(i)
          /\ Body(i).type = "InvoiceSettled" /\ ~SkipsFull(Body(i))
          /\ pc[i] = "done" /\ LegsEnded(i) )
        => \/ /\ res[i] = Json(200, TRUE)
              /\ \A l \in PaidLegs(i) :
                    /\ \E d \in donations : d.id = <<i, l>>
                    /\ PointsDue(Body(i))
                         => \E n \in 1..Len(pointHistory) :
                                pointHistory[n].donationId = <<i, l>>
           \/ /\ res[i] # Json(200, TRUE)
              /\ DonationsOf(i) = {}
              /\ EntriesOf(i) = {}

\* An invocation has answered exactly when its handler has ended, and it
\* has answered 200 only with every leg completed.
AnsweredAtEnd ==
    \A i \in Invs :
        /\ pc[i] = "done" <=> res[i] # NoRes
        /\ res[i] = Json(200, TRUE) => \A l \in 1..Len(legs[i]) : Finished(legs[i][l])

\* An answer, once sent, is not followed by another.
AnswerKept == \A i \in Invs : res[i] # NoRes => res'[i] = res[i]

\* C16: the 200 of a full-settlement event is sent only when every leg has
\* completed all its writes, and every invocation that has ended has sent
\* one answer and never sends a second one, on every path.
C16_FanInOneResponse == []AnsweredAtEnd /\ [][AnswerKept]_vars

\* C16 witness: 200 for an event with two paid legs that both wrote a
\* donation and a points entry.
C16_Witness ==
    \E i \in Invs :
        /\ FullSettlement(i) /\ res[i] = Json(200, TRUE)
        /\ PointsDue(Body(i))
        /\ Cardinality(PaidLegs(i)) >= 2
        /\ Cardinality(EntriesOf(i)) >= 2

\* The portion of a header after its first '=', or undefined without '='.
AfterFirstEq(chars) ==
    IF \A n \in 1..Len(chars) : chars[n] # Eq THEN [def |-> FALSE]
    ELSE LET n == CHOOSE m \in 1..Len(chars) :
                     chars[m] = Eq /\ \A l \in 1..(m - 1) : chars[l] # Eq
         IN  [def |-> TRUE, val |-> SubSeq(chars, n + 1, Len(chars))]

\* C17: a POST with a string header and a JSON body gets past the signature
\* check exactly if the whole of the header after its first '=' is the hex
\* HMAC of the raw body, also for headers with more than one '='.
C17_WholeTailCompared ==
    \A i \in Invs :
        ( /\ Classified(i)
          /\ req[i].method = "POST"
          /\ req[i].sig.kind = "string"
          /\ Body(i).json )
        => ( res[i] # Json(400, FALSE)
             <=> AfterFirstEq(req[i].sig.chars) = [def |-> TRUE, val |-> Hmac(Body(i))] )

-----------------------------------------------------------------------------
(* The partial-settlement path under every value of the metadata the full  *)
(* path reads (lines 105, 133, 139).                                       *)

PartialMetadataSet ==
    [staticGeneratedForApi : {"true", "false", Undefined},
     givePointsBack : {"true", "false"},
     userId : {Undefined, "u1"},
     fundSlug : {"f1"},
     projectSlug : {"p1"},
     isMembership : {"true", "false"}]

InitPartial == InitWith(InvoiceIds, PartialMetadataSet, LegValues)

\* One delivery of an event of one invoice.
NextPartial == Step(1, SignedRequests(Bodies))

SpecPartial == InitPartial /\ [][NextPartial]_vars

\* Invocation i handles a verified partial-settlement event that is not
\* skipped.
PartialSettlement(i) ==
    /\ Classified(i) /\ Verified(i)
    /\ Body(i).type = "InvoicePaymentSettled"
    /\ ~SkipsPartial(Body(i))

\* The row of the partial path: net is gross, no points.
NetIsGross(d) ==
    /\ d.netCryptoAmount = d.grossCryptoAmount
    /\ d.netFiatAmount = d.grossFiatAmount
    /\ d.pointsAdded = 0

\* C18 as stated: a verified partial-settlement event that is not skipped
\* has, once handled, created exactly one Donation with net = gross and
\* pointsAdded = 0 and no points entry, whatever the metadata.
C18_PartialBooksOne ==
    \A i \in Invs :
        (PartialSettlement(i) /\ pc[i] = "done")
        => /\ Cardinality(DonationsOf(i)) = 1
           /\ \A d \in DonationsOf(i) : NetIsGross(d)
           /\ EntriesOf(i) = {}

\* C18 amended: a verified partial-settlement event that is not skipped
\* never creates a points entry and never more than one Donation, which has
\* net = gross and pointsAdded = 0; once handled it has created exactly one
\* if it answered 200, and none if the rate query or the write failed.
C18_PartialBooksOneOnSuccess ==
    \A i \in Invs :
        PartialSettlement(i)
        => /\ EntriesOf(i) = {}
           /\ Cardinality(DonationsOf(i)) <= 1
           /\ \A d \in DonationsOf(i) : NetIsGross(d)
           /\ pc[i] = "done" =>
                /\ res[i] \in {Json(200, TRUE), Uncaught}
                /\ res[i] = Json(200, TRUE) => Cardinality(DonationsOf(i)) = 1
                /\ res[i] = Uncaught => DonationsOf(i) = {} /\ fault[i] # {}

\* C18 witness: the event of a known donor who asked for points and a
\* membership is booked with one donation and answered 200.
C18_Witness ==
    \E i \in Invs :
        /\ PartialSettlement(i) /\ res[i] = Json(200, TRUE)
        /\ Body(i).metadata.givePointsBack = "true"
        /\ Body(i).metadata.userId = "u1"
        /\ Body(i).metadata.isMembership = "true"
        /\ Cardinality(DonationsOf(i)) = 1

\* The donation row with the id an entry refers to and written by the leg
\* that wrote the entry.
DonationOfEntry(entry) ==
    {d \in donations : /\ d.id = entry.donationId
                       /\ d.inv = entry.inv /\ d.leg = entry.leg}

\* C19: every points entry refers to an existing Donation written by the
\* same leg, with the same userId, fundSlug, projectSlug and pointsAdded,
\* and no Donation is referred to by two entries.
C19_EntryRefersToItsDonation ==
    /\ \A n \in 1..Len(pointHistory) :
        /\ DonationOfEntry(pointHistory[n]) # {}
        /\ \A d \in DonationOfEntry(pointHistory[n]) :
            /\ d.userId = pointHistory[n].userId
            /\ d.fundSlug = pointHistory[n].fundSlug
            /\ d.projectSlug = pointHistory[n].projectSlug
            /\ d.pointsAdded = pointHistory[n].pointsAdded
    /\ \A n, m \in 1..Len(pointHistory) :
        pointHistory[n].donationId = pointHistory[m].donationId => n = m

\* C19 witness: entries of two legs of one invocation and of another
\* invocation are in the ledger.
C19_Witness ==
    /\ Len(pointHistory) >= 3
    /\ \E n, m \in 1..Len(pointHistory) :
        /\ pointHistory[n].inv = pointHistory[m].inv
        /\ pointHistory[n].leg # pointHistory[m].leg
        /\ pointHistory[n].pointsAdded > 0

-----------------------------------------------------------------------------
(* Two invoices of any two scopes, their events handled concurrently.      *)

Users == {"u1", "u2"}
FundSlugs == {"f1", "f2"}
ProjectSlugs == {"p1", "p2"}

\* Known donors who ask for points, in every scope.
ScopeMetadataSet ==
    [staticGeneratedForApi : {Undefined},
     givePointsBack : {"true"},
     userId : Users,
     fundSlug : FundSlugs,
     projectSlug : ProjectSlugs,
     isMembership : {"false"}]

\* 1.00 at 10.00 and 1.00 at 5.00: 1000 and 500 points.
ScopeLegValues == {[amount |-> 4, rate |-> 1000], [amount |-> 4, rate |-> 500]}

\* The first invoice is of scope (u1, f1, p1) and has one payment method;
\* the second is of the same scope or of one that differs from it in the
\* user, in the fund or in the project.
InitScope ==
    /\ InitWith(SeqInvoiceIds, ScopeMetadataSet, ScopeLegValues)
    /\ invoices["inv1"].metadata.userId = "u1"
    /\ invoices["inv1"].metadata.fundSlug = "f1"
    /\ invoices["inv1"].metadata.projectSlug = "p1"
    /\ Len(invoices["inv1"].paymentMethods) = 1
    /\ Cardinality({c \in {"userId", "fundSlug", "projectSlug"} :
            invoices["inv2"].metadata[c] # invoices["inv1"].metadata[c]}) <= 1

NextScope == \E i \in Invs : Step(i, SignedRequests(Bodies))

SpecScope == InitScope /\ [][NextScope]_vars

\* Two rows or bodies' metadata are of exactly the same scope.
SameScope(a, b) ==
    /\ a.userId = b.userId
    /\ a.fundSlug = b.fundSlug
    /\ a.projectSlug = b.projectSlug

\* The balances a lookup of scope sc may answer, given the first n entries:
\* 0, or the pointsBalance of an entry of exactly that scope.
BalancesOfScope(sc, n) ==
    {0} \cup {pointHistory[m].pointsBalance :
                m \in {k \in 1..n : SameScope(pointHistory[k], sc)}}

\* Every balance read or written comes from the entries of its own scope.
BalanceFromOwnScope ==
    /\ \A n \in 1..Len(pointHistory) :
        (pointHistory[n].pointsBalance - pointHistory[n].pointsAdded)
            \in BalancesOfScope(pointHistory[n], n - 1)
    /\ \A i \in Invs : \A l \in 1..Len(legs[i]) :
        legs[i][l].pc = "pointHistory.create"
        => legs[i][l].currentBalance
               \in BalancesOfScope(Body(i).metadata, Len(pointHistory))

\* Entries are only appended: no entry of any scope is changed or removed.
EntriesKept ==
    /\ Len(pointHistory') >= Len(pointHistory)
    /\ \A n \in 1..Len(pointHistory) : pointHistory'[n] = pointHistory[n]

\* C20: the balance an event reads and the pointsBalance it writes are 0 or
\* the pointsBalance of an earlier entry of exactly the same userId,
\* fundSlug and projectSlug, and handling an event changes no entry of any
\* scope.
C20_ScopeIsolation == []BalanceFromOwnScope /\ [][EntriesKept]_vars

\* C20 witness: entries of two scopes that differ in the fund only, and a
\* second entry of the first scope that continues its balance.
C20_Witness ==
    \E n, m, k \in 1..Len(pointHistory) :
        /\ n < k
        /\ SameScope(pointHistory[n], pointHistory[k])
        /\ pointHistory[k].pointsBalance > pointHistory[k].pointsAdded
        /\ pointHistory[m].userId = pointHistory[n].userId
        /\ pointHistory[m].projectSlug = pointHistory[n].projectSlug
        /\ pointHistory[m].fundSlug # pointHistory[n].fundSlug

====
